---- MODULE Spec2Model ----
(***************************************************************************)
(* A model of athop_transaction_scraper.py: the run loop of ATHopScraper   *)
(* (run, run_once), the per-card pipeline (scrape_card, with its database  *)
(* transaction) and the session handling (login, _test_session).           *)
(*                                                                         *)
(* The portal, the browser login, sqlite and Slack are the environment:    *)
(* each call into them is a nondeterministic choice over the outcomes the  *)
(* code distinguishes (a return value, an exception it catches, an         *)
(* exception it lets through).                                             *)
(***************************************************************************)
EXTENDS Integers, Sequences, FiniteSets, Bags, TLC

\* ------------------------------------------------------------------ bounds

\* Longest "Transactions" array the portal returns in the model.
MaxBatch == 2
\* The consecutive-failure counter is not driven beyond this value.
MaxFailures == 2
\* Notifications whose INSERT was rolled back: at most this many over a
\* behaviour (a rollback that would leave more is not taken).
MaxOrphans == 1
\* The same three bounds for SpecLive, which is checked for liveness.
LiveBatch == 1
LiveFailures == 1
LiveOrphans == 1
\* The same three bounds for SpecRecover, whose portal keeps returning
\* one array.
RecoverBatch == 1
RecoverFailures == 2
RecoverOrphans == 1
\* The same three bounds for SpecLoop, which follows the failure counter
\* far enough to reach the cap of the backoff.
LoopBatch == 1
LoopFailures == 7
LoopOrphans == 1

\* ------------------------------------------------------- program constants

\* Config.period, Config.startup_delay (defaults).
Period == 3600
StartupDelay == 60
\* run(): base, cap and the flat sleep of the exception handler.
BackoffBase == 60
BackoffCap == 1800
ExceptionSleep == 60

PENDING == "TRANSACTION(S) PENDING"
\* A key that is missing from an upstream JSON object.
Absent == "<absent>"
\* Python's None as a column value / card name.
None == "None"

\* Config.cards: card_id -> card_name, in configuration order.
Cards == << [card_id |-> "A", card_name |-> "Paul"],
            [card_id |-> "B", card_name |-> None] >>

\* -------------------------------------------------------- upstream payloads

\* Raw transactions as the portal may return them.  "location" stands for
\* the required fields read after "description" (all are read with
\* transaction[...] and raise KeyError alike); "value" is read with .get.
RawUniverse ==
    { [cardtransactionid |-> "T1", description |-> "Bus Trip", location |-> "Stop A", value |-> "-2.50"],
      [cardtransactionid |-> "T2", description |-> "Bus Trip", location |-> "Stop A", value |-> Absent],
      [cardtransactionid |-> "T1", description |-> PENDING,    location |-> "Stop A", value |-> "-2.50"],
      [cardtransactionid |-> Absent, description |-> PENDING,  location |-> Absent,   value |-> Absent],
      [cardtransactionid |-> "T2", description |-> "Bus Trip", location |-> Absent,   value |-> "-2.50"],
      [cardtransactionid |-> Absent, description |-> "Bus Trip", location |-> "Stop A", value |-> "-2.50"],
      [cardtransactionid |-> "T2", description |-> Absent,     location |-> "Stop A", value |-> "-2.50"] }

RECURSIVE SeqsUpTo(_, _)
SeqsUpTo(S, n) ==
    IF n = 0 THEN { <<>> }
    ELSE LET shorter == SeqsUpTo(S, n - 1)
         IN  shorter \cup { Append(s, x) : s \in { t \in shorter : Len(t) = n - 1 }, x \in S }

\* The "Transactions" arrays of at most n elements.
Payloads(n) == SeqsUpTo(RawUniverse, n)

\* Raw transactions of a portal that revises what it returned before:
\* T2 in two versions that differ in a field outside the key, and the
\* pending placeholder.
RevisedUniverse ==
    { [cardtransactionid |-> "T2", description |-> "Bus Trip", location |-> "Stop A", value |-> Absent],
      [cardtransactionid |-> "T2", description |-> "Bus Trip", location |-> "Stop A", value |-> "-1.00"],
      [cardtransactionid |-> "T1", description |-> PENDING,    location |-> "Stop A", value |-> "-2.50"] }

\* listing, while the portal's answer is not held fixed.
Changing == << [cardtransactionid |-> "<changing>"] >>

\* ------------------------------------------------------------- the program

VARIABLES
    pc,                    \* where run() is
    session,               \* self.session: 0 is None, 1 and 2 are Session objects
    consecutive_failures,  \* run()'s counter
    wait_time,             \* argument of the last time.sleep of run()
    outcome,               \* how the last cycle ended
    table,                 \* committed rows of the transactions table (a bag)
    conn,                  \* rows as seen inside the open connection (a bag)
    conn_open,             \* a connection is open
    card_idx,              \* position of run_once's loop over config.cards
    unread,                \* elements of "transactions" the loop has not reached yet
    new_count,             \* scrape_card's counter
    notified,              \* every call of send_slack_notification so far (a bag)
    probe,                 \* what _test_session returned in the current cycle
    login_calls,           \* calls of login() in the current cycle
    scraped,               \* how each scrape_card call of the current cycle ended, and what it returned
    seen,                  \* Transaction tuples process_transaction built in the current batch
    discarded,             \* why process_transaction returned None in the current batch
    sent,                  \* records notified in the current scrape_card call
    listing,               \* the "Transactions" array the portal keeps answering with, or Changing
    ingested,              \* cards whose batch of the unchanged listing was committed
    universe               \* the raw transactions the portal draws its answers from

vars == << pc, session, consecutive_failures, wait_time, outcome, table, conn,
           conn_open, card_idx, unread, new_count, notified,
           probe, login_calls, scraped, seen, discarded, sent, listing,
           ingested, universe >>

db_vars == << table, conn, conn_open >>
batch_vars == << unread, new_count, seen, discarded, sent >>
portal_vars == << listing, ingested, universe >>
loop_vars == << consecutive_failures, wait_time, outcome >>

NoTxn == [card_id |-> None]

\* process_transaction without its early return for the placeholder.
process_transaction_keeps_pending(card, raw) ==
    IF raw.cardtransactionid = Absent THEN NoTxn
    ELSE IF raw.description = Absent THEN NoTxn
    ELSE IF raw.location = Absent THEN NoTxn
    ELSE [ card_id |-> card.card_id,
           card_name |-> card.card_name,
           cardtransactionid |-> raw.cardtransactionid,
           description |-> raw.description,
           location |-> raw.location,
           value |-> IF raw.value = Absent THEN None ELSE raw.value ]

\* process_transaction building a record from whatever fields there are.
process_transaction_keeps_missing(card, raw) ==
    IF raw.description = PENDING THEN NoTxn
    ELSE [ card_id |-> card.card_id,
           card_name |-> card.card_name,
           cardtransactionid |-> raw.cardtransactionid,
           description |-> raw.description,
           location |-> raw.location,
           value |-> IF raw.value = Absent THEN None ELSE raw.value ]

\* process_transaction: None for the pending placeholder and for a missing
\* required field, else the Transaction tuple.
process_transaction(card, raw) ==
    IF raw.description = PENDING THEN NoTxn
    ELSE IF raw.cardtransactionid = Absent THEN NoTxn
    ELSE IF raw.description = Absent THEN NoTxn
    ELSE IF raw.location = Absent THEN NoTxn
    ELSE [ card_id |-> card.card_id,
           card_name |-> card.card_name,
           cardtransactionid |-> raw.cardtransactionid,
           description |-> raw.description,
           location |-> raw.location,
           value |-> IF raw.value = Absent THEN None ELSE raw.value ]

\* PRIMARY KEY (card_id, cardtransactionid)
SameKey(r, s) ==
    /\ r.card_id = s.card_id
    /\ r.cardtransactionid = s.cardtransactionid

\* A table created without its primary key: no INSERT is refused.
IntegrityErrorNoKey(rows, txn) == FALSE

\* The INSERT violates the primary key: sqlite3.IntegrityError.
IntegrityError(rows, txn) ==
    \E r \in BagToSet(rows) : SameKey(r, txn)

\* The INSERT of scrape_card inside the open transaction.
Insert(rows, txn) == rows (+) SetToBag({txn})

\* A with block that never commits.
CommitNothing(committed, rows) == committed

\* conn.commit(): the rows of the connection become the table.
Commit(committed, rows) == rows

\* A connection in autocommit mode: the rows inserted so far stay.
RollbackKeepsRows(committed, rows) == rows

\* conn.rollback(), and conn.close() with the transaction still open: the
\* table keeps the rows committed before.
Rollback(committed, rows) == committed

\* The backoff without its cap.
BackoffUncapped(failures) == BackoffBase * (2 ^ (failures - 1))

\* min(60 * (2 ** (consecutive_failures - 1)), 1800)
Backoff(failures) ==
    LET raw == BackoffBase * (2 ^ (failures - 1))
    IN  IF raw < BackoffCap THEN raw ELSE BackoffCap

\* run_once looking at the session only, not at the probe.
NeedLoginIgnoresProbe(sess, probe_ok) == sess = 0

\* run_once: "if not self.session or not self._test_session()"
NeedLogin(sess, probe_ok) == sess = 0 \/ ~probe_ok

\* _create_session(): a Session object that is not the current one.
NewSession(sess) == IF sess = 1 THEN 2 ELSE 1

Init ==
    /\ pc = "ensure_database"
    /\ session = 0
    /\ consecutive_failures = 0
    /\ wait_time = 0
    /\ outcome = "none"
    /\ table = EmptyBag
    /\ conn = EmptyBag
    /\ conn_open = FALSE
    /\ card_idx = 0
    /\ unread = 0
    /\ new_count = 0
    /\ notified = EmptyBag
    /\ probe = "unchecked"
    /\ login_calls = 0
    /\ scraped = <<>>
    /\ seen = {}
    /\ discarded = {}
    /\ sent = <<>>
    /\ listing = Changing
    /\ ingested = {}
    /\ universe = RawUniverse

\* ---- run(): what follows a cycle

\* The locals of run_once and scrape_card are gone when run_once is left.
LeaveRunOnce ==
    /\ card_idx' = 0
    /\ unread' = 0
    /\ new_count' = 0
    /\ probe' = "unchecked"
    /\ login_calls' = 0
    /\ scraped' = <<>>
    /\ seen' = {}
    /\ discarded' = {}
    /\ sent' = <<>>

\* run_once() returned True: the counter is reset, the sleep is the period.
RunOnceTrue ==
    /\ consecutive_failures' = 0
    /\ wait_time' = Period
    /\ outcome' = "success"
    /\ pc' = "sleep"
    /\ LeaveRunOnce

\* run_once() returned False: the counter grows, the sleep is the backoff.
RunOnceFalse(cap) ==
    /\ consecutive_failures < cap
    /\ consecutive_failures' = consecutive_failures + 1
    /\ wait_time' = Backoff(consecutive_failures + 1)
    /\ outcome' = "failure"
    /\ pc' = "sleep"
    /\ LeaveRunOnce

\* run() without its "except Exception" clause: the exception ends run().
ExceptExceptionPropagates(cap) ==
    /\ consecutive_failures < cap
    /\ pc' = "crashed"
    /\ LeaveRunOnce
    /\ UNCHANGED loop_vars

\* An exception handler that sleeps the flat 60 s and the backoff.
ExceptExceptionBacksOff(cap) ==
    /\ consecutive_failures < cap
    /\ consecutive_failures' = consecutive_failures + 1
    /\ wait_time' = ExceptionSleep + Backoff(consecutive_failures + 1)
    /\ outcome' = "exception"
    /\ pc' = "sleep"
    /\ LeaveRunOnce

\* "except Exception": the counter grows, the sleep is the flat one.
ExceptException(cap) ==
    /\ consecutive_failures < cap
    /\ consecutive_failures' = consecutive_failures + 1
    /\ wait_time' = ExceptionSleep
    /\ outcome' = "exception"
    /\ pc' = "sleep"
    /\ LeaveRunOnce

\* ---- run()

\* ensure_database() finds or creates the table, then the startup sleep begins.
EnsureDatabase ==
    /\ pc = "ensure_database"
    /\ pc' = "startup_delay"
    /\ wait_time' = StartupDelay
    /\ UNCHANGED << session, consecutive_failures, outcome, db_vars, card_idx,
                    batch_vars, notified, probe, login_calls, scraped, portal_vars >>

\* ensure_database() raises a sqlite3.Error: run() has no handler around it.
EnsureDatabaseFails ==
    /\ pc = "ensure_database"
    /\ pc' = "crashed"
    /\ UNCHANGED << session, loop_vars, db_vars, card_idx, batch_vars, notified,
                    probe, login_calls, scraped, portal_vars >>

\* A sleep of run() ends and run_once() starts the next cycle.
Wake ==
    /\ pc \in {"startup_delay", "sleep"}
    /\ pc' = "run_once"
    /\ outcome' = "running"
    /\ UNCHANGED << session, consecutive_failures, wait_time, db_vars, card_idx,
                    batch_vars, notified, probe, login_calls, scraped, portal_vars >>

\* KeyboardInterrupt, wherever run() is: an open connection is closed by
\* database_connection's finally without a commit, and the loop ends.
Shutdown ==
    /\ pc \notin {"stopped", "crashed"}
    /\ pc' = "stopped"
    /\ table' = Rollback(table, conn)
    /\ conn' = EmptyBag
    /\ conn_open' = FALSE
    /\ LeaveRunOnce
    /\ UNCHANGED << session, loop_vars, notified, portal_vars >>

\* ---- run_once(): the session

\* "if not self.session or not self._test_session()": the probe is only
\* sent when a session exists; its answer is the portal's.
CheckSession ==
    /\ pc = "run_once"
    /\ \E probe_ok \in (IF session = 0 THEN {FALSE} ELSE BOOLEAN) :
          /\ probe' = IF session = 0 THEN "no_session"
                      ELSE IF probe_ok THEN "valid" ELSE "invalid"
          /\ IF NeedLogin(session, probe_ok)
             THEN pc' = "login" /\ card_idx' = card_idx
             ELSE pc' = "scrape_card" /\ card_idx' = 1
    /\ UNCHANGED << session, loop_vars, db_vars, batch_vars, notified,
                    login_calls, scraped, portal_vars >>

\* login() returns True: a new Session object holds the browser's cookies.
LoginOk ==
    /\ pc = "login"
    /\ login_calls' = login_calls + 1
    /\ session' = NewSession(session)
    /\ pc' = "scrape_card"
    /\ card_idx' = 1
    /\ UNCHANGED << loop_vars, db_vars, batch_vars, notified, probe, scraped,
                    portal_vars >>

\* run_once calling login() again after it returned False.
LoginFailRetries(cap) ==
    /\ pc = "login"
    /\ consecutive_failures < cap
    /\ pc' = "login"
    /\ login_calls' = login_calls + 1
    /\ UNCHANGED << session, loop_vars, db_vars, card_idx, batch_vars, notified,
                    probe, scraped, portal_vars >>

\* login() returns False (TimeoutException, WebDriverException).  Raised
\* by driver.get_cookies(), after "self.session = self._create_session()",
\* it leaves a new Session object without cookies behind.
LoginFail(cap) ==
    /\ pc = "login"
    /\ \/ session' = session
       \/ session' = NewSession(session)
    /\ RunOnceFalse(cap)
    /\ UNCHANGED << db_vars, notified, portal_vars >>

\* login() raises anything else (it catches the two selenium classes only).
LoginRaises(cap) ==
    /\ pc = "login"
    /\ ExceptException(cap)
    /\ UNCHANGED << session, db_vars, notified, portal_vars >>

\* ---- run_once(): the loop over the cards

\* scrape_card returned count: the loop goes to the next card, or
\* run_once returns True after the last one.
CardDone(result, count) ==
    IF card_idx < Len(Cards)
    THEN /\ card_idx' = card_idx + 1
         /\ pc' = "scrape_card"
         /\ scraped' = Append(scraped, [result |-> result, count |-> count])
         /\ UNCHANGED << loop_vars, batch_vars, probe, login_calls >>
    ELSE RunOnceTrue

\* A rollback after a notification leaves a notification without a row.
Orphans(notif, rows) == BagCardinality(notif) - BagCardinality(rows)

\* fetch_transactions without its except clauses: the error leaves run_once.
FetchFailsUncaught ==
    /\ pc = "scrape_card"
    /\ consecutive_failures' = consecutive_failures + 1
    /\ wait_time' = ExceptionSleep
    /\ outcome' = "exception"
    /\ pc' = "sleep"
    /\ LeaveRunOnce
    /\ UNCHANGED << session, db_vars, notified, portal_vars >>

\* fetch_transactions returns None: HTTPError, JSONDecodeError or
\* RequestException was caught; scrape_card returns 0.
FetchFails ==
    /\ pc = "scrape_card"
    /\ CardDone("fetch_failed", 0)
    /\ UNCHANGED << session, db_vars, notified, portal_vars >>

\* The body decodes to JSON that is no object: data.get raises
\* AttributeError, which fetch_transactions does not catch.
FetchRaises(cap) ==
    /\ pc = "scrape_card"
    /\ ExceptException(cap)
    /\ UNCHANGED << session, db_vars, notified, portal_vars >>

\* The array is read one element at a time, so the model fixes each
\* element when the loop reaches it: any raw transaction while the
\* listing is changing, the listing's next element while it is not.
NextRaws ==
    IF listing = Changing THEN universe
    ELSE {listing[Len(listing) - unread + 1]}

\* The for loop has "left" elements to go: its body, or the end of the
\* with block.
Loop(left) ==
    /\ unread' = left
    /\ pc' = IF left = 0 THEN "commit" ELSE "batch"

\* fetch_transactions returns the "Transactions" array and
\* database_connection opens the connection.
FetchOk(maxlen) ==
    /\ pc = "scrape_card"
    /\ \E length \in (IF listing = Changing THEN 0..maxlen ELSE {Len(listing)}) :
          Loop(length)
    /\ new_count' = 0
    /\ seen' = {}
    /\ discarded' = {}
    /\ sent' = <<>>
    /\ conn' = table
    /\ conn_open' = TRUE
    /\ UNCHANGED << session, loop_vars, table, card_idx, notified, probe,
                    login_calls, scraped, portal_vars >>

\* sqlite3.connect raises: there is no connection to roll back.
ConnectFails(cap) ==
    /\ pc = "scrape_card"
    /\ ExceptException(cap)
    /\ UNCHANGED << session, db_vars, notified, portal_vars >>

\* ---- scrape_card(): the loop over the transactions

\* Why process_transaction returns None for a raw transaction: the early
\* return, or the KeyError handler.
Reason(raw) == IF raw.description = PENDING THEN "pending" ELSE "missing"

\* process_transaction returned None: "continue".
SkipTransaction ==
    /\ pc = "batch"
    /\ \E raw \in NextRaws :
          /\ process_transaction(Cards[card_idx], raw) = NoTxn
          /\ discarded' = discarded \cup {Reason(raw)}
    /\ Loop(unread - 1)
    /\ UNCHANGED << session, loop_vars, db_vars, card_idx, new_count, seen,
                    sent, notified, probe, login_calls, scraped, portal_vars >>

\* The notification moved out of the try block: sent for a stored key too.
InsertDuplicateNotifies ==
    /\ pc = "batch"
    /\ \E raw \in NextRaws :
          LET txn == process_transaction(Cards[card_idx], raw)
          IN  /\ txn # NoTxn
              /\ IntegrityError(conn, txn)
              /\ seen' = seen \cup {txn}
              /\ notified' = notified (+) SetToBag({txn})
              /\ sent' = Append(sent, txn)
    /\ Loop(unread - 1)
    /\ UNCHANGED << session, loop_vars, db_vars, card_idx, new_count, discarded,
                    probe, login_calls, scraped, portal_vars >>

\* INSERT OR REPLACE: the row of a stored key is overwritten.
InsertDuplicateReplaces ==
    /\ pc = "batch"
    /\ \E raw \in NextRaws :
          LET txn == process_transaction(Cards[card_idx], raw)
          IN  /\ txn # NoTxn
              /\ IntegrityError(conn, txn)
              /\ seen' = seen \cup {txn}
              /\ conn' = (conn (-) SetToBag({ r \in BagToSet(conn) : SameKey(r, txn) }))
                            (+) SetToBag({txn})
    /\ Loop(unread - 1)
    /\ UNCHANGED << session, loop_vars, table, conn_open, card_idx, new_count,
                    discarded, sent, notified, probe, login_calls, scraped,
                    portal_vars >>

\* The counter incremented before the INSERT: a stored key is counted.
InsertDuplicateCounts ==
    /\ pc = "batch"
    /\ \E raw \in NextRaws :
          LET txn == process_transaction(Cards[card_idx], raw)
          IN  /\ txn # NoTxn
              /\ IntegrityError(conn, txn)
              /\ seen' = seen \cup {txn}
    /\ new_count' = new_count + 1
    /\ Loop(unread - 1)
    /\ UNCHANGED << session, loop_vars, db_vars, card_idx, discarded,
                    sent, notified, probe, login_calls, scraped, portal_vars >>

\* The INSERT raises sqlite3.IntegrityError: "pass".
InsertDuplicate ==
    /\ pc = "batch"
    /\ \E raw \in NextRaws :
          LET txn == process_transaction(Cards[card_idx], raw)
          IN  /\ txn # NoTxn
              /\ IntegrityError(conn, txn)
              /\ seen' = seen \cup {txn}
    /\ Loop(unread - 1)
    /\ UNCHANGED << session, loop_vars, db_vars, card_idx, new_count, discarded,
                    sent, notified, probe, login_calls, scraped, portal_vars >>

\* The INSERT succeeds; the record is counted and send_slack_notification
\* is called, which returns (a SlackApiError is caught inside it).
InsertNew ==
    /\ pc = "batch"
    /\ \E raw \in NextRaws :
          LET txn == process_transaction(Cards[card_idx], raw)
          IN  /\ txn # NoTxn
              /\ ~IntegrityError(conn, txn)
              /\ seen' = seen \cup {txn}
              /\ conn' = Insert(conn, txn)
              /\ notified' = notified (+) SetToBag({txn})
              /\ sent' = Append(sent, txn)
    /\ new_count' = new_count + 1
    /\ Loop(unread - 1)
    /\ UNCHANGED << session, loop_vars, table, conn_open, card_idx, discarded,
                    probe, login_calls, scraped, portal_vars >>

\* The INSERT succeeds and send_slack_notification raises something that
\* is no SlackApiError: the exception is no sqlite3.Error, so
\* database_connection only closes the connection.
NotifyRaises(cap, orphans) ==
    /\ pc = "batch"
    /\ \E raw \in NextRaws :
          LET txn == process_transaction(Cards[card_idx], raw)
          IN  /\ txn # NoTxn
              /\ ~IntegrityError(conn, txn)
              /\ notified' = notified (+) SetToBag({txn})
              /\ table' = Rollback(table, Insert(conn, txn))
    /\ Orphans(notified', table) <= orphans
    /\ conn' = EmptyBag
    /\ conn_open' = FALSE
    /\ ExceptException(cap)
    /\ UNCHANGED << session, portal_vars >>

\* database_connection without its finally clause: the connection stays
\* open after the rollback.
StoreErrorLeavesOpen(cap, orphans) ==
    /\ \/ /\ pc = "batch"
          /\ \E raw \in NextRaws : process_transaction(Cards[card_idx], raw) # NoTxn
       \/ pc = "commit"
    /\ Orphans(notified, table) <= orphans
    /\ table' = Rollback(table, conn)
    /\ conn' = table
    /\ conn_open' = TRUE
    /\ ExceptException(cap)
    /\ UNCHANGED << session, notified, portal_vars >>

\* The same exception in a cycle beyond the bounds: the counter has
\* reached cap and is not followed further (the sleep of the handler does
\* not depend on it), and the call is no longer recorded in notified.
NotifyRaisesAgain(cap) ==
    /\ pc = "batch"
    /\ consecutive_failures = cap
    /\ \E raw \in NextRaws :
          LET txn == process_transaction(Cards[card_idx], raw)
          IN  /\ txn # NoTxn
              /\ ~IntegrityError(conn, txn)
              /\ table' = Rollback(table, Insert(conn, txn))
    /\ conn' = EmptyBag
    /\ conn_open' = FALSE
    /\ wait_time' = ExceptionSleep
    /\ outcome' = "exception"
    /\ pc' = "sleep"
    /\ LeaveRunOnce
    /\ UNCHANGED << session, consecutive_failures, notified, portal_vars >>

\* The INSERT or conn.commit() raises a sqlite3.Error that is no
\* IntegrityError: database_connection rolls back, closes and re-raises.
StoreError(cap, orphans) ==
    /\ \/ /\ pc = "batch"
          /\ \E raw \in NextRaws : process_transaction(Cards[card_idx], raw) # NoTxn
       \/ pc = "commit"
    /\ Orphans(notified, table) <= orphans
    /\ table' = Rollback(table, conn)
    /\ conn' = EmptyBag
    /\ conn_open' = FALSE
    /\ ExceptException(cap)
    /\ UNCHANGED << session, notified, portal_vars >>

\* The loop is over: conn.commit(), conn.close(), "return new_count".
CommitBatch ==
    /\ pc = "commit"
    /\ table' = Commit(table, conn)
    /\ conn' = EmptyBag
    /\ conn_open' = FALSE
    /\ ingested' = IF listing = Changing THEN ingested ELSE ingested \cup {card_idx}
    /\ CardDone("committed", new_count)
    /\ UNCHANGED << session, notified, listing, universe >>

\* ---- the specifications

\* One step of the program, with the failure counter followed up to cap,
\* arrays of up to maxlen elements and up to orphans rolled-back
\* notifications.
Step(cap, maxlen, orphans) ==
    \/ EnsureDatabase
    \/ EnsureDatabaseFails
    \/ Wake
    \/ Shutdown
    \/ CheckSession
    \/ LoginOk
    \/ LoginFail(cap)
    \/ LoginRaises(cap)
    \/ FetchFails
    \/ FetchRaises(cap)
    \/ FetchOk(maxlen)
    \/ ConnectFails(cap)
    \/ SkipTransaction
    \/ InsertDuplicate
    \/ InsertNew
    \/ NotifyRaises(cap, orphans)
    \/ StoreError(cap, orphans)
    \/ CommitBatch

Next == Step(MaxFailures, MaxBatch, MaxOrphans)

\* The program against a portal whose answers change freely.
Spec == Init /\ [][Next]_vars

NextLoop == Step(LoopFailures, LoopBatch, LoopOrphans)

\* The same program, followed through more consecutive failures.
SpecLoop == Init /\ [][NextLoop]_vars

\* The portal answers every fetch with the same array.
InitStable ==
    /\ pc = "ensure_database"
    /\ session = 0
    /\ consecutive_failures = 0
    /\ wait_time = 0
    /\ outcome = "none"
    /\ table = EmptyBag
    /\ conn = EmptyBag
    /\ conn_open = FALSE
    /\ card_idx = 0
    /\ unread = 0
    /\ new_count = 0
    /\ notified = EmptyBag
    /\ probe = "unchecked"
    /\ login_calls = 0
    /\ scraped = <<>>
    /\ seen = {}
    /\ discarded = {}
    /\ sent = <<>>
    /\ listing \in Payloads(MaxBatch)
    /\ ingested = {}
    /\ universe = RawUniverse

\* The program against a portal whose answer does not change.
SpecStable == InitStable /\ [][Next]_vars

NextLive == Step(LiveFailures, LiveBatch, LiveOrphans)

\* Every step but the shutdown signal and the failure of the initial
\* setup.  Each call the loop waits on is bounded in time (the request
\* timeouts of the probe and the fetch, the WebDriverWait timeouts of
\* login, the sleeps), so a step that can be taken is taken.
Progress == NextLive /\ pc' \notin {"stopped", "crashed"}

\* The program with every call returning or raising in finite time.
SpecLive == Init /\ [][NextLive]_vars /\ WF_vars(Progress)

\* The portal answers every fetch with the same array of at most
\* RecoverBatch elements.
InitRecover ==
    /\ pc = "ensure_database"
    /\ session = 0
    /\ consecutive_failures = 0
    /\ wait_time = 0
    /\ outcome = "none"
    /\ table = EmptyBag
    /\ conn = EmptyBag
    /\ conn_open = FALSE
    /\ card_idx = 0
    /\ unread = 0
    /\ new_count = 0
    /\ notified = EmptyBag
    /\ probe = "unchecked"
    /\ login_calls = 0
    /\ scraped = <<>>
    /\ seen = {}
    /\ discarded = {}
    /\ sent = <<>>
    /\ listing \in Payloads(RecoverBatch)
    /\ ingested = {}
    /\ universe = RawUniverse

\* One step of the program, the notification that keeps raising in
\* cycle after cycle included.
NextRecover ==
    \/ Step(RecoverFailures, RecoverBatch, RecoverOrphans)
    \/ NotifyRaisesAgain(RecoverFailures)

ProgressRecover == NextRecover /\ pc' \notin {"stopped", "crashed"}

\* The program against a portal whose answer does not change, with
\* every call returning or raising in finite time.
SpecRecover == InitRecover /\ [][NextRecover]_vars /\ WF_vars(ProgressRecover)

\* The portal revises records between its answers.
InitRevised ==
    /\ pc = "ensure_database"
    /\ session = 0
    /\ consecutive_failures = 0
    /\ wait_time = 0
    /\ outcome = "none"
    /\ table = EmptyBag
    /\ conn = EmptyBag
    /\ conn_open = FALSE
    /\ card_idx = 0
    /\ unread = 0
    /\ new_count = 0
    /\ notified = EmptyBag
    /\ probe = "unchecked"
    /\ login_calls = 0
    /\ scraped = <<>>
    /\ seen = {}
    /\ discarded = {}
    /\ sent = <<>>
    /\ listing = Changing
    /\ ingested = {}
    /\ universe = RevisedUniverse

\* The program against a portal that revises its records.
SpecRevised == InitRevised /\ [][Next]_vars

\* ------------------------------------------------------------------ claims

\* (card_id, cardtransactionid) of a row.
Key(r) == << r.card_id, r.cardtransactionid >>

\* No two rows of a table share a key.
OneRowPerKey(rows) ==
    \A r \in BagToSet(rows) :
        /\ CopiesIn(r, rows) = 1
        /\ \A q \in BagToSet(rows) : Key(q) = Key(r) => q = r

\* The steps of the for loop of scrape_card that stay inside the loop.
Iteration == pc = "batch" /\ pc' \in {"batch", "commit"}

\* C1 (store idempotence): the table and the rows seen inside the open
\* connection never hold two rows with the same (card_id,
\* cardtransactionid), and an INSERT that meets a stored key changes
\* nothing: no row, no count, no notification, and the loop goes on
\* with the cycle still running.
C1_StoreIdempotence ==
    [][ /\ OneRowPerKey(table')
        /\ OneRowPerKey(conn')
        /\ InsertDuplicate =>
              /\ conn' = conn
              /\ table' = table
              /\ new_count' = new_count
              /\ notified' = notified
              /\ Iteration
              /\ outcome' = "running"
              /\ consecutive_failures' = consecutive_failures ]_vars

\* A batch that held a stored key was read to its end: the key still has
\* its one row, and nothing was counted.
C1_Witness ==
    /\ pc = "commit"
    /\ new_count = 0
    /\ \E t \in seen : CopiesIn(t, table) = 1 /\ CopiesIn(t, conn) = 1

\* C2 (pending filter): no row of the table or of the open connection,
\* and no notified record, has the description "TRANSACTION(S) PENDING".
C2_PendingFilter ==
    \A r \in BagToSet(table) \cup BagToSet(conn) \cup BagToSet(notified) :
        r.description # PENDING

\* A batch with a pending placeholder was read to its end.
C2_Witness ==
    /\ pc = "commit"
    /\ "pending" \in discarded

\* C3 (notification gating): in every iteration of scrape_card's loop the
\* notifications made are the rows inserted: one for a new key, none for
\* a stored key or a discarded element; the counter moves with them.
\* Outside the loop a notification is only made by the iteration that
\* its own notification ends, for the one new row it inserted.
C3_NotificationGating ==
    [][ /\ Iteration =>
              /\ notified' (-) notified = conn' (-) conn
              /\ notified (-) notified' = EmptyBag
              /\ BagCardinality(conn' (-) conn) = new_count' - new_count
              /\ new_count' - new_count \in {0, 1}
        /\ (~Iteration /\ notified' # notified) =>
              /\ pc = "batch"
              /\ outcome' = "exception"
              /\ \E t \in BagToSet(notified') :
                    /\ notified' = notified (+) SetToBag({t})
                    /\ \A r \in BagToSet(conn) : Key(r) # Key(t)
                    /\ t.description \notin {PENDING, Absent}
                    /\ t.cardtransactionid # Absent
                    /\ t.location # Absent ]_vars

\* One batch held a new record and a stored one: one notification.
C3_Witness ==
    /\ pc = "commit"
    /\ Len(sent) = 1
    /\ new_count = 1
    /\ Cardinality(seen) = 2

\* C4 (fetch isolation): a fetch that fails leaves the table and the
\* notifications as they are, opens no connection, and hands over to the
\* next card of the configuration, or, after the last card, ends the
\* cycle as a success with the counter at 0; and whenever a card is being
\* scraped, every card before it was scraped in this cycle.
C4_FetchIsolation ==
    /\ [](pc \in {"scrape_card", "batch", "commit"} => Len(scraped) = card_idx - 1)
    /\ [][ FetchFails =>
              /\ table' = table
              /\ notified' = notified
              /\ ~conn_open'
              /\ IF card_idx < Len(Cards)
                 THEN /\ pc' = "scrape_card"
                      /\ card_idx' = card_idx + 1
                      /\ outcome' = "running"
                      /\ consecutive_failures' = consecutive_failures
                 ELSE /\ pc' = "sleep"
                      /\ outcome' = "success"
                      /\ consecutive_failures' = 0
                      /\ wait_time' = Period ]_vars

\* The first card's fetch failed and the second card's batch was read
\* and brought a new record.
C4_Witness ==
    /\ pc = "commit"
    /\ card_idx = 2
    /\ Len(scraped) = 1
    /\ scraped[1].result = "fetch_failed"
    /\ new_count > 0

\* C5 (store-failure isolation), as claimed: a sqlite3.Error raised by
\* the INSERT or by the commit rolls the batch back and the cycle goes
\* on: the next card is scraped, or the cycle ends as a success after
\* the last card; the failure counter does not grow.
C5_StoreFailureIsolation ==
    [][ StoreError(MaxFailures, MaxOrphans) =>
            /\ table' = table
            /\ ~conn_open'
            /\ IF card_idx < Len(Cards)
               THEN /\ pc' = "scrape_card"
                    /\ card_idx' = card_idx + 1
                    /\ consecutive_failures' = consecutive_failures
               ELSE /\ outcome' = "success"
                    /\ consecutive_failures' = 0 ]_vars

\* The sleep the claim gives for the f-th consecutive failure.
Schedule(f) ==
    CASE f = 1 -> 60
      [] f = 2 -> 120
      [] f = 3 -> 240
      [] f = 4 -> 480
      [] f = 5 -> 960
      [] OTHER -> 1800

\* C6 (backoff schedule), as claimed: after every cycle the loop counts
\* as a failure, the sleep is Schedule(f), f being the counter.
C6_Original ==
    (pc = "sleep" /\ consecutive_failures >= 1) =>
        wait_time = Schedule(consecutive_failures)

\* C6 (backoff schedule), amended: after a cycle that run_once ended by
\* returning False the sleep is Schedule(f), f being the counter after
\* its increment, and never more than 1800; after a cycle an exception
\* ended the sleep is the flat 60 seconds.
C6_BackoffSchedule ==
    pc = "sleep" =>
        /\ outcome = "failure" =>
              /\ consecutive_failures >= 1
              /\ wait_time = Schedule(consecutive_failures)
              /\ wait_time <= 1800
        /\ outcome = "exception" =>
              /\ consecutive_failures >= 1
              /\ wait_time = 60

\* The sixth consecutive failure, a failed login: the sleep is the cap.
C6_Witness ==
    /\ pc = "sleep"
    /\ outcome = "failure"
    /\ consecutive_failures = 6
    /\ wait_time = 1800

\* C7 (session reuse): login() is called at most once in a cycle; it is
\* called only after the session was missing or the probe failed, and
\* before any card is scraped; and while the cards are scraped, either
\* the probe succeeded and login() was not called, or the session was
\* missing or the probe failed and login() was called once.
C7_SessionReuse ==
    /\ login_calls <= 1
    /\ pc = "login" =>
          /\ probe \in {"no_session", "invalid"}
          /\ login_calls = 0
          /\ card_idx = 0
          /\ scraped = << >>
    /\ pc \in {"scrape_card", "batch", "commit"} =>
          \/ probe = "valid" /\ session # 0 /\ login_calls = 0
          \/ probe \in {"no_session", "invalid"} /\ login_calls = 1

\* The probe succeeded and the first card is about to be fetched.
C7_Witness ==
    /\ pc = "scrape_card"
    /\ probe = "valid"
    /\ login_calls = 0

\* C8 (cycle outcome), as claimed: a cycle that got past authentication
\* ends as a success: the counter is 0 and the sleep is the period.
C8_CycleOutcome ==
    [][ (pc \in {"scrape_card", "batch", "commit"} /\ pc' = "sleep") =>
            /\ outcome' = "success"
            /\ consecutive_failures' = 0
            /\ wait_time' = Period ]_vars

\* C9 (pipeline idempotence): with the portal answering with the same
\* array, a run for a card whose batch of that array was committed
\* inserts no row, counts nothing, notifies nobody and leaves the table
\* as it is.
C9_PipelineIdempotence ==
    /\ []((pc \in {"batch", "commit"} /\ card_idx \in ingested) =>
              /\ new_count = 0
              /\ sent = << >>
              /\ conn = table)
    /\ [][ (pc \in {"scrape_card", "batch", "commit"} /\ card_idx \in ingested) =>
              /\ table' = table
              /\ notified' = notified ]_vars

\* The array, with a valid record in it, was read to its end again.
C9_Witness ==
    /\ pc = "commit"
    /\ card_idx \in ingested
    /\ seen # {}

\* C10 (batch atomicity): a connection is open exactly while a batch is
\* processed.  The table changes only when the batch's loop is over,
\* and then to the rows of the connection: the rows before plus rows of
\* this batch's valid records, with every valid record's key stored.
\* A batch that is left by an exception or by the shutdown signal leaves
\* the table as it was.
C10_BatchAtomicity ==
    /\ [](conn_open <=> pc \in {"batch", "commit"})
    /\ [][ table' # table =>
              /\ pc = "commit"
              /\ pc' # "stopped"
              /\ outcome' # "exception"
              /\ table' = conn
              /\ table \sqsubseteq table'
              /\ \A r \in BagToSet(table' (-) table) : r \in seen
              /\ \A t \in seen : \E r \in BagToSet(table') : Key(r) = Key(t) ]_vars
    /\ [][ (pc = "commit" /\ pc' # "stopped" /\ outcome' # "exception") =>
              table' = conn ]_vars
    /\ [][ (pc \in {"batch", "commit"} /\ (pc' = "stopped" \/ outcome' = "exception")) =>
              /\ table' = table
              /\ ~conn_open' ]_vars

\* In the first cycle the first card's batch of two new records was
\* committed.
C10_Witness ==
    /\ pc = "scrape_card"
    /\ card_idx = 2
    /\ Len(scraped) = 1
    /\ scraped[1].result = "committed"
    /\ wait_time = StartupDelay
    /\ BagCardinality(table) = 2

\* C11 (notification failure is advisory), as claimed: whatever becomes
\* of the call of send_slack_notification for a newly inserted record,
\* the record stays inserted and counted, the loop goes on to the next
\* record or to the commit, and the cycle is still running with the
\* failure counter as it was.
C11_NotifyAdvisory ==
    [][ (pc = "batch" /\ notified' # notified) =>
            /\ Iteration
            /\ conn' (-) conn = notified' (-) notified
            /\ new_count' = new_count + 1
            /\ outcome' = "running"
            /\ consecutive_failures' = consecutive_failures ]_vars

\* Where run() is while a cycle is under way, and while it sleeps.
InCycle == pc \in {"run_once", "login", "scrape_card", "batch", "commit"}

\* C12 (the process keeps running): once the loop of run() is entered,
\* run() is only left by the shutdown signal: no failure inside a cycle
\* ends it.  Unless the signal arrives (or the initial setup failed),
\* again and again a cycle is started and again and again a cycle comes
\* to its sleep.
C12_KeepsRunning ==
    /\ [][ pc' = "crashed" => pc = "ensure_database" ]_vars
    /\ [][ pc' = "stopped" => Shutdown ]_vars
    /\ [][ (InCycle /\ pc' \notin {"stopped"}) => (InCycle' \/ pc' = "sleep") ]_vars
    /\ []<>(pc \in {"run_once", "stopped", "crashed"})
    /\ []<>(pc \in {"sleep", "stopped", "crashed"})

\* A next cycle was started after a failed cycle.
C12_Witness ==
    /\ pc = "run_once"
    /\ consecutive_failures = 1

\* C13 (login failure ends the cycle): login() is called before any card
\* is scraped and once; when it fails (it returns False or raises), the
\* cycle ends there: the loop sleeps, the table and the notifications are
\* as they were, the counter grew by exactly 1, and the sleep is the
\* backoff for the new counter after a False and 60 s after an
\* exception.  login() is only called from the session check at the
\* start of a cycle, and a cycle only starts after a sleep.
C13_LoginFailure ==
    /\ [](pc = "login" => (login_calls = 0 /\ card_idx = 0 /\ scraped = << >> /\ ~conn_open))
    /\ [][ (pc = "login" /\ pc' \notin {"scrape_card", "stopped"}) =>
              /\ pc' = "sleep"
              /\ outcome' \in {"failure", "exception"}
              /\ consecutive_failures' = consecutive_failures + 1
              /\ wait_time' = IF outcome' = "failure"
                              THEN Schedule(consecutive_failures + 1)
                              ELSE 60
              /\ table' = table
              /\ notified' = notified
              /\ ~conn_open' ]_vars
    /\ [][ pc' = "login" => pc = "run_once" ]_vars
    /\ [][ pc' = "run_once" => pc \in {"startup_delay", "sleep"} ]_vars

\* Login failed in two cycles in a row.
C13_Witness ==
    /\ pc = "sleep"
    /\ outcome = "failure"
    /\ consecutive_failures = 2
    /\ wait_time = 120

\* C14 (uncaught exception), as claimed: after a cycle that an exception
\* ended, the sleep is 60 s plus the backoff for the incremented counter.
C14_Original ==
    (pc = "sleep" /\ outcome = "exception") =>
        wait_time = 60 + Schedule(consecutive_failures)

\* C14 (uncaught exception), amended: an exception that leaves a cycle
\* does not end run(): the counter grows by 1 and the loop sleeps the
\* flat 60 s, whatever the counter is; the backoff is not added.
C14_UncaughtException ==
    /\ [][ (InCycle /\ outcome' = "exception") =>
              /\ pc' = "sleep"
              /\ consecutive_failures' = consecutive_failures + 1
              /\ wait_time' = 60 ]_vars
    /\ [][ InCycle => pc' # "crashed" ]_vars
    /\ []((pc = "sleep" /\ outcome = "exception") =>
              (wait_time = 60 /\ consecutive_failures >= 1))

\* The second failure in a row was an exception: the sleep is 60 s,
\* where the backoff alone would be 120 s.
C14_Witness ==
    /\ pc = "sleep"
    /\ outcome = "exception"
    /\ consecutive_failures = 2
    /\ wait_time = 60

\* The rows and notified records that were built without a required field.
Incomplete(rows) ==
    { r \in BagToSet(rows) :
        \/ r.cardtransactionid = Absent
        \/ r.description = Absent
        \/ r.location = Absent }

\* C15 (malformed-record isolation): no row of the table or of the open
\* connection and no notified record lacks a required field.  The
\* iteration that meets a malformed record inserts, counts and notifies
\* nothing and hands over to the next element or to the commit, with the
\* cycle still running; every valid record the loop has met, before or
\* after a malformed one, has its row in the connection, and the commit
\* that ends such a batch stores these rows.
C15_MalformedIsolation ==
    /\ [](Incomplete(table) \cup Incomplete(conn) \cup Incomplete(notified) = {})
    /\ []((pc \in {"batch", "commit"} /\ "missing" \in discarded) =>
              \A t \in seen : \E r \in BagToSet(conn) : Key(r) = Key(t))
    /\ [][ SkipTransaction =>
              /\ Iteration
              /\ unread' = unread - 1
              /\ db_vars' = db_vars
              /\ notified' = notified
              /\ new_count' = new_count
              /\ outcome' = "running" ]_vars
    /\ [][ (pc = "commit" /\ "missing" \in discarded /\ pc' # "stopped" /\ outcome' # "exception") =>
              /\ table' = conn
              /\ \A t \in seen : \E r \in BagToSet(table') : Key(r) = Key(t) ]_vars

\* A batch with a malformed record and a new valid one was read to its
\* end: the valid one was inserted.
C15_Witness ==
    /\ pc = "commit"
    /\ "missing" \in discarded
    /\ new_count = 1
    /\ Cardinality(seen) = 1

\* C16 (session lifecycle), as claimed: the session is gone as soon as
\* the probe finds it expired and whenever a login attempt fails, and a
\* successful login puts a Session object in its place that is not the
\* one held before.
C16_SessionLifecycle ==
    [][ /\ (pc = "run_once" /\ probe' = "invalid") => session' = 0
        /\ (pc = "login" /\ pc' = "sleep") => session' = 0
        /\ (pc = "login" /\ pc' = "scrape_card") => session' \notin {0, session} ]_vars

\* C17 (stored rows are immutable): every committed row is in the table
\* after every step, with the values it was committed with, and it is
\* the only row of its key; inside an open connection no row goes away
\* either, and an INSERT that meets a stored key, with the same or with
\* other field values, leaves the rows as they are.
C17_StoredImmutable ==
    /\ [](OneRowPerKey(table))
    /\ [][ table \sqsubseteq table' ]_vars
    /\ [][ (conn_open /\ conn_open') => conn \sqsubseteq conn' ]_vars
    /\ [][ InsertDuplicate => (conn' = conn /\ table' = table) ]_vars

\* A batch brought another version of a committed record: the row kept
\* the values of the first version.
C17_Witness ==
    /\ pc = "commit"
    /\ \E t \in seen : \E r \in BagToSet(table) :
          /\ Key(r) = Key(t)
          /\ r # t
          /\ CopiesIn(r, conn) = 1
          /\ CopiesIn(t, conn) = 0

\* The keys of the batch's valid records that had no committed row when
\* the run began.
NewKeys == { Key(t) : t \in { s \in seen : \A r \in BagToSet(table) : Key(r) # Key(s) } }

\* C18 (new-record count): while a batch is processed the counter is the
\* number of rows inserted so far; when the run completes normally, the
\* count it returns is the number of rows the commit adds to the table
\* and the number of distinct new keys among the batch's valid records
\* (0 for an empty array); a run whose fetch failed returns 0 and adds
\* no row.
C18_NewRecordCount ==
    /\ [](pc \in {"batch", "commit"} =>
              new_count = BagCardinality(conn) - BagCardinality(table))
    /\ [][ (pc = "commit" /\ pc' # "stopped" /\ outcome' # "exception") =>
              /\ new_count = BagCardinality(table') - BagCardinality(table)
              /\ new_count = Cardinality(NewKeys)
              /\ seen = {} => new_count = 0
              /\ pc' = "scrape_card" =>
                    scraped' = Append(scraped, [result |-> "committed", count |-> new_count]) ]_vars
    /\ [][ FetchFails =>
              /\ table' = table
              /\ pc' = "scrape_card" =>
                    scraped' = Append(scraped, [result |-> "fetch_failed", count |-> 0]) ]_vars

\* The first card's batch held two valid records, one of them stored
\* before: the run returned 1.
C18_Witness ==
    /\ pc = "scrape_card"
    /\ card_idx = 2
    /\ Len(scraped) = 1
    /\ scraped[1] = [result |-> "committed", count |-> 1]
    /\ Cardinality(seen) = 2

\* C19 (no sleep inside a transaction): while run() sleeps, or has
\* ended, no connection is open and no uncommitted row is pending; the
\* step that takes a cycle with an open connection to the sleep closes
\* it, after a commit (the table gets the connection's rows) or without
\* one (the table keeps its rows).
C19_NoSleepInTransaction ==
    /\ [](pc \in {"startup_delay", "sleep", "stopped"} =>
              (~conn_open /\ conn = EmptyBag))
    /\ [][ (conn_open /\ pc' = "sleep") =>
              /\ ~conn_open'
              /\ IF outcome' = "exception" THEN table' = table ELSE table' = conn ]_vars

\* The loop sleeps after a cycle in which a batch with a new row was
\* abandoned.
C19_Witness ==
    /\ pc = "sleep"
    /\ outcome = "exception"
    /\ ~conn_open
    /\ Orphans(notified, table) = 1

\* C20 (notified implies persisted), as claimed: when a pipeline run for
\* a card ends, however it ends, every record the run has notified is a
\* committed row of the table.
C20_NotifiedImpliesPersisted ==
    [][ (conn_open /\ ~conn_open') =>
            \A i \in 1..Len(sent) : CopiesIn(sent[i], table') >= 1 ]_vars

\* C21 (at most one notification per key), as claimed: over the whole
\* run send_slack_notification is called at most once for each
\* (card_id, cardtransactionid).
C21_OneNotificationPerKey ==
    \A r \in BagToSet(notified) :
        /\ CopiesIn(r, notified) <= 1
        /\ \A q \in BagToSet(notified) : Key(q) = Key(r) => q = r

\* A step in which the login, a fetch or the store fails.
AuthFetchStoreFails ==
    \/ LoginFail(RecoverFailures)
    \/ LoginRaises(RecoverFailures)
    \/ FetchFails
    \/ FetchRaises(RecoverFailures)
    \/ ConnectFails(RecoverFailures)
    \/ StoreError(RecoverFailures, RecoverOrphans)

\* Every valid, non-pending record of the portal's array has a committed
\* row, for every configured card.
AllStored ==
    \A i \in 1..Len(Cards) : \A k \in 1..Len(listing) :
        LET txn == process_transaction(Cards[i], listing[k])
        IN  txn # NoTxn => \E r \in BagToSet(table) : Key(r) = Key(txn)

\* run() was left.
Ended == pc \in {"stopped", "crashed"}

\* C22 (recovery liveness), as claimed: if from some point on no login,
\* no fetch and no store operation fails, then, unless run() is ended,
\* every valid, non-pending record the portal keeps returning is
\* eventually committed for every card, and the failure counter
\* eventually is 0 and stays 0.
C22_RecoveryLiveness ==
    (<>[][~AuthFetchStoreFails]_vars) =>
        /\ <>(AllStored \/ Ended)
        /\ <>[](consecutive_failures = 0 \/ Ended)

====
